---- MODULE Spec2Model ----
(***************************************************************************)
(* Model of the gPodder Spotify extension (src/spotify.py): the cache      *)
(* handler (SpotifyCacheHandler), the token and OAuth logic (SpotifyAPI),  *)
(* the feed adapter (SpotifyFeed) and the OAuth redirect handler of        *)
(* gPodderExtension.                                                       *)
(*                                                                         *)
(* Conventions.  A Python dict with a fixed set of possible keys is a      *)
(* function from those keys to values, an absent key being the value       *)
(* Missing.  Python's None is the value NoneVal where an integer is        *)
(* expected.  Every operation leaves a record of its call in `ret`:        *)
(* op (the function called), exc ("none" or the name of the exception      *)
(* that left the function), val (the returned value), posts / gets (the    *)
(* number of token-endpoint POSTs and API GETs it issued) and arg (its     *)
(* inputs).                                                                *)
(***************************************************************************)
EXTENDS Integers, Sequences, FiniteSets, TLC

\* ------------------------------------------------------------------ bounds
MaxVal == 1           \* values of a show-info field are 1..MaxVal
MaxTok == 2           \* access/refresh token strings are 1..MaxTok
MaxNow == 4           \* the clock runs from 0 to MaxNow ticks
TicksPerSecond == 2   \* resolution of time.time() below one second
MaxExpiresIn == 1     \* expires_in of a token response is 0..MaxExpiresIn seconds

LIMIT_MAX == 50       \* the largest page the API gives

Missing == -1         \* the key is not in the dict
NoneVal == -2         \* Python None

MaxTail == 3          \* a URL has at most MaxTail characters besides the prefix
MaxUpstream == 2      \* a show has at most MaxUpstream episodes upstream
MaxNonce == 4         \* at most MaxNonce random strings are drawn in a run
MaxMeta == 2          \* the API serves MaxMeta versions of a show's metadata

VARIABLES
    cache_info,    \* spotify_cache.cache_info
    disk,          \* the file gpodder.home/spotify_cache
    now,           \* time.time(), in ticks
    verifier,      \* SpotifyAPI._verifier
    oauth_state,   \* SpotifyAPI._oauth_state
    nonce,         \* the number of random strings drawn so far
    hist,          \* the values the two generators returned last
    ret            \* the last call

vars == <<cache_info, disk, now, verifier, oauth_state, nonce, hist, ret>>

storeVars == <<cache_info, disk, now>>

oauthVars == <<verifier, oauth_state, nonce, hist>>

\* The show ids of the subscriptions.
ShowIds == {1, 2}

\* ------------------------------------------------------- documents (JSON)
\* Keys of a show-info dict: the three the accessors read ('images' stands for
\* info['images'][1]['url']), the two that set_podcast_info removes, and the
\* '_headers' that do_api_request adds.
InfoKeys == {"name", "description", "images", "available_markets", "episodes", "_headers"}

EmptyInfo == [k \in InfoKeys |-> Missing]

InfoDicts == [InfoKeys -> {Missing} \cup (1..MaxVal)]

\* The dicts over the keys `keys`, every other key absent.
InfoDictsOver(keys) ==
    {d \in InfoDicts : \A k \in InfoKeys \ keys : d[k] = Missing}

\* A show-info dict as an earlier run stored it.
StoredInfo ==
    [k \in InfoKeys |-> IF k \in {"available_markets", "episodes"} THEN Missing ELSE 1]

\* An entry of cache_info['podcasts']: has = the show id is a key.
NoEntry == [has |-> FALSE, d |-> EmptyInfo]

Entry(d) == [has |-> TRUE, d |-> d]

EmptyPodcasts == [s \in ShowIds |-> NoEntry]

EmptyUser == [access_token |-> Missing, refresh_token |-> Missing,
              scope |-> Missing, expires_at |-> Missing]

\* A JSON value as load() can meet it.  kind "object": a dict, hasP / hasU say
\* whether it has the keys 'podcasts' / 'user'.  kind "list" / "str": hasP /
\* hasU are the results of `'podcasts' in v` / `'user' in v` (membership,
\* substring).  kind "num": a number or true, on which `in` is a TypeError.
Doc(kind, hasP, hasU, podcasts, user) ==
    [kind |-> kind, hasP |-> hasP, hasU |-> hasU, podcasts |-> podcasts, user |-> user]

Plain(kind) == Doc(kind, FALSE, FALSE, EmptyPodcasts, EmptyUser)

\* self.cache_info before load() has run: the attribute does not exist.
Unset == Plain("unset")

EmptyObject == Plain("object")

ObjectDoc(podcasts, user) == Doc("object", TRUE, TRUE, podcasts, user)

\* The exception Python raises on self.cache_info['podcasts'] / ['user'] when
\* cache_info is not a dict.
AccessError(c) == IF c.kind = "unset" THEN "AttributeError" ELSE "TypeError"

Usable(c) == c.kind = "object" /\ c.hasP /\ c.hasU

\* ------------------------------------------------------ SpotifyCacheHandler
\* Outcomes of open(file, 'w') + json.dump: written, open failed (file as it
\* was), or failed after the truncation by open.
WriteOutcomes == {"ok", "open_failed", "truncated"}

\* A mutant of save_cache_file: only the podcasts map is written, the
\* credential in the file stays.
save_cache_file_podcasts(c, d, w) ==
    IF c.kind = "unset" THEN d
    ELSE IF w = "ok" THEN [c EXCEPT !.user = d.user]
    ELSE IF w = "truncated" THEN Plain("corrupt")
    ELSE d

save_cache_file(c, d, w) ==
    IF c.kind = "unset" THEN d
    ELSE IF w = "ok" THEN c
    ELSE IF w = "truncated" THEN Plain("corrupt")
    ELSE d

\* The value json.load returns, None when the file is missing or unreadable.
LoadParsed(d) == IF d.kind \in {"missing", "corrupt", "falsy"} THEN EmptyObject ELSE d

load(d) ==
    LET v == LoadParsed(d) IN
    IF v.kind = "num" THEN [exc |-> "TypeError", cache |-> v]
    ELSE IF v.kind = "object"
    THEN [exc |-> "none",
          cache |-> Doc("object", TRUE, TRUE,
                        IF v.hasP THEN v.podcasts ELSE EmptyPodcasts,
                        IF v.hasU THEN v.user ELSE EmptyUser)]
    ELSE IF v.hasP /\ v.hasU THEN [exc |-> "none", cache |-> v]
    ELSE [exc |-> "TypeError", cache |-> v]

get_user(c) ==
    IF Usable(c) THEN [exc |-> "none", user |-> c.user]
    ELSE [exc |-> AccessError(c), user |-> EmptyUser]

get_podcast(c, show) ==
    IF Usable(c) THEN [exc |-> "none", info |-> c.podcasts[show]]
    ELSE [exc |-> AccessError(c), info |-> NoEntry]

\* A mutant of PruneInfo: the pop of 'episodes' is left out.
PruneInfoMarketsOnly(d) ==
    [k \in InfoKeys |-> IF k = "available_markets" THEN Missing ELSE d[k]]

\* info_copy.pop('available_markets', None); info_copy.pop('episodes', None)
PruneInfo(d) ==
    [k \in InfoKeys |-> IF k \in {"available_markets", "episodes"} THEN Missing ELSE d[k]]

\* A mutant of set_podcast_info: for None an empty entry is stored before the
\* exception is raised.
set_podcast_info_early(c, d, show, info, w) ==
    IF ~Usable(c)
    THEN [exc |-> AccessError(c), cache |-> c, disk |-> d, info |-> info]
    ELSE LET c2 == [c EXCEPT !.podcasts[show] =
                                 Entry(IF info.isNone THEN EmptyInfo ELSE PruneInfo(info.d))]
         IN [exc |-> IF info.isNone THEN "AttributeError" ELSE "none", cache |-> c2,
             disk |-> save_cache_file(c2, d, w), info |-> info]

\* info is [isNone, d]; the result carries the caller's object after the call.
set_podcast_info(c, d, show, info, w) ==
    IF info.isNone
    THEN [exc |-> "AttributeError", cache |-> c, disk |-> d, info |-> info]
    ELSE IF ~Usable(c)
    THEN [exc |-> AccessError(c), cache |-> c, disk |-> d, info |-> info]
    ELSE LET c2 == [c EXCEPT !.podcasts[show] = Entry(PruneInfo(info.d))] IN
         [exc |-> "none", cache |-> c2, disk |-> save_cache_file(c2, d, w), info |-> info]

\* A mutant of delete_podcast_info: the whole podcasts map is emptied.
delete_podcast_info_all(c, d, show, w) ==
    IF ~Usable(c) THEN [exc |-> AccessError(c), cache |-> c, disk |-> d]
    ELSE IF c.podcasts[show].has
    THEN LET c2 == [c EXCEPT !.podcasts = EmptyPodcasts] IN
         [exc |-> "none", cache |-> c2, disk |-> save_cache_file(c2, d, w)]
    ELSE [exc |-> "none", cache |-> c, disk |-> d]

delete_podcast_info(c, d, show, w) ==
    IF ~Usable(c) THEN [exc |-> AccessError(c), cache |-> c, disk |-> d]
    ELSE IF c.podcasts[show].has
    THEN LET c2 == [c EXCEPT !.podcasts[show] = NoEntry] IN
         [exc |-> "none", cache |-> c2, disk |-> save_cache_file(c2, d, w)]
    ELSE [exc |-> "none", cache |-> c, disk |-> d]

\* A token response: a dict with some of the recognized keys.
Responses ==
    [access_token : {Missing} \cup (1..MaxTok), refresh_token : {Missing} \cup (1..MaxTok),
     scope : {Missing, 1}, expires_in : {Missing} \cup (0..MaxExpiresIn)]

\* A response with none of the recognized keys.
NoResponse == [access_token |-> Missing, refresh_token |-> Missing,
               scope |-> Missing, expires_in |-> Missing]

\* int( time.time() ) at clock reading t (in ticks).
NowSeconds(t) == t \div TicksPerSecond

\* A mutant of MergeUser: the three token fields are assigned without the `in`
\* tests of lines 448-455.
MergeUserAssign(u, info, t) ==
    [access_token |-> info.access_token,
     refresh_token |-> info.refresh_token,
     scope |-> info.scope,
     expires_at |-> IF info.expires_in # Missing THEN NowSeconds(t) + info.expires_in
                    ELSE u.expires_at]

MergeUser(u, info, t) ==
    [access_token |-> IF info.access_token # Missing THEN info.access_token ELSE u.access_token,
     refresh_token |-> IF info.refresh_token # Missing THEN info.refresh_token ELSE u.refresh_token,
     scope |-> IF info.scope # Missing THEN info.scope ELSE u.scope,
     expires_at |-> IF info.expires_in # Missing THEN NowSeconds(t) + info.expires_in
                    ELSE u.expires_at]

\* One of the `in` tests of lines 448-458 is true.
HasRecognized(info) ==
    \/ info.access_token # Missing \/ info.refresh_token # Missing
    \/ info.scope # Missing \/ info.expires_in # Missing

set_user_info(c, d, info, t, w) ==
    IF ~Usable(c) /\ HasRecognized(info)
    THEN [exc |-> AccessError(c), cache |-> c, disk |-> d]
    ELSE LET c2 == IF Usable(c) THEN [c EXCEPT !.user = MergeUser(c.user, info, t)] ELSE c IN
         [exc |-> "none", cache |-> c2, disk |-> save_cache_file(c2, d, w)]

\* ---------------------------------------------------------- SpotifyAPI tokens
\* A mutant of is_token_expired: > in place of >= on line 208.
is_token_expired_late(user, t) ==
    IF user.expires_at = Missing THEN TRUE
    ELSE NowSeconds(t) > user.expires_at

\* user is a credential dict, t the clock reading in ticks.
is_token_expired(user, t) ==
    IF user.expires_at = Missing THEN TRUE
    ELSE NowSeconds(t) >= user.expires_at

\* The JSON dicts the token endpoint answers a refresh with: a grant carries
\* its scope, an answer without access_token carries none; the refresh token
\* is left out or rotated to one new value.
TokenResponses ==
    {r \in Responses : /\ (r.scope # Missing) <=> (r.access_token # Missing)
                       /\ r.refresh_token \in {Missing, MaxTok}}

\* What urlopen on the token endpoint does: it raises (HTTP error status, no
\* connection), or returns a JSON dict.
ServerError == [kind |-> "error", resp |-> NoResponse]

TokenServer == {ServerError}
               \cup {[kind |-> "json", resp |-> r] : r \in TokenResponses}

\* The behaviours of the token endpoint that a call can tell apart: one when
\* the call sends no POST (posts = 0), all of them when it does.
ServerChoices(posts, servers) == IF posts = 0 THEN {ServerError} ELSE servers

\* The outcomes of the write that a call can tell apart: nothing is written
\* after urlopen raised.
WriteChoices(srv) == IF srv.kind = "error" THEN {"ok"} ELSE WriteOutcomes

\* A mutant of HasAccessToken: the check of line 179 is left out.
HasAccessTokenUnchecked(resp) == TRUE

\* `'access_token' not in dict_response` is false: the response is accepted.
HasAccessToken(resp) == resp.access_token # Missing

\* refresh: "none" (no request), "keyerror" (no refresh_token to send), "error"
\* (urlopen raised), "rejected" (response without access_token), "accepted".
\* answered / answer: the JSON dict the token endpoint returned, if any.
\* gu is what get_user returned, su what set_user_info( dict_response ) does.
TokenResult(gu, su, c, d, t, srv) ==
    LET same == [cache |-> c, disk |-> d]
        quiet == [posts |-> 0, answered |-> FALSE, answer |-> NoResponse]
        asked == [posts |-> 1, answered |-> TRUE, answer |-> srv.resp]
    IN
    IF gu.exc # "none"
    THEN same @@ quiet @@ [exc |-> gu.exc, val |-> NoneVal, refresh |-> "none"]
    ELSE IF ~is_token_expired(gu.user, t) /\ gu.user.access_token # Missing
    THEN same @@ quiet @@ [exc |-> "none", val |-> gu.user.access_token, refresh |-> "none"]
    ELSE IF gu.user.refresh_token = Missing
    THEN same @@ quiet @@ [exc |-> "KeyError", val |-> NoneVal, refresh |-> "keyerror"]
    ELSE IF srv.kind = "error"
    THEN same @@ [posts |-> 1, answered |-> FALSE, answer |-> NoResponse]
              @@ [exc |-> "HTTPError", val |-> NoneVal, refresh |-> "error"]
    ELSE IF ~HasAccessToken(srv.resp)
    THEN same @@ asked @@ [exc |-> "none", val |-> NoneVal, refresh |-> "rejected"]
    ELSE asked @@ [cache |-> su.cache, disk |-> su.disk,
                   exc |-> IF su.exc # "none" THEN su.exc
                           ELSE IF srv.resp.access_token = Missing THEN "KeyError" ELSE "none",
                   val |-> IF srv.resp.access_token = Missing THEN NoneVal
                           ELSE srv.resp.access_token,
                   refresh |-> "accepted"]

get_token(c, d, t, srv, w) ==
    TokenResult(get_user(c), set_user_info(c, d, srv.resp, t, w), c, d, t, srv)

\* -------------------------------------------------------- SpotifyAPI requests
\* What urlopen on an API URL does: it raises, or returns the JSON body.
ApiError == [kind |-> "error", body |-> <<>>]

ApiJson(body) == [kind |-> "json", body |-> body]

\* The GETs that a call can tell apart: one when the call sends none.
ApiChoices(gets, apis) == IF gets = 0 THEN {ApiError} ELSE apis

\* `not token` on line 69.
NoToken(token) == token = NoneVal

\* isNone: the function returned None.  token: what get_token returned, Missing
\* when it raised.  body: the part of the response the caller reads.
\* tk is what get_token did.
ApiResult(tk, api) ==
    LET base == [cache |-> tk.cache, disk |-> tk.disk, posts |-> tk.posts] IN
    IF tk.exc # "none"
    THEN base @@ [exc |-> tk.exc, isNone |-> FALSE, body |-> <<>>, gets |-> 0,
                  token |-> Missing]
    ELSE IF NoToken(tk.val)
    THEN base @@ [exc |-> "none", isNone |-> TRUE, body |-> <<>>, gets |-> 0,
                  token |-> tk.val]
    ELSE IF api.kind = "error"
    THEN base @@ [exc |-> "HTTPError", isNone |-> FALSE, body |-> <<>>, gets |-> 1,
                  token |-> tk.val]
    ELSE base @@ [exc |-> "none", isNone |-> FALSE, body |-> api.body, gets |-> 1,
                  token |-> tk.val]

do_api_request(c, d, t, srv, w, api) == ApiResult(get_token(c, d, t, srv, w), api)

\* response_dict['_headers'] = {...} of lines 90-100, on a show object.
Headed(r) ==
    IF r.exc = "none" /\ ~r.isNone THEN [r EXCEPT !.body["_headers"] = 1] ELSE r

get_show_info(c, d, t, srv, w, api) == Headed(do_api_request(c, d, t, srv, w, api))

Min(a, b) == IF a < b THEN a ELSE b

Max(a, b) == IF a > b THEN a ELSE b

\* The limit parameter of the episodes URL.
Limit(max_episodes) ==
    IF max_episodes = 0 THEN LIMIT_MAX ELSE Max(1, Min(LIMIT_MAX, max_episodes))

\* The first page of a show's episodes, as the API cuts it to the limit.
Page(upstream, limit) == SubSeq(upstream, 1, Min(limit, Len(upstream)))

\* r is what do_api_request returned: r['items'] is a TypeError when r is None.
Items(r) ==
    IF r.exc = "none" /\ r.isNone THEN [r EXCEPT !.exc = "TypeError", !.isNone = FALSE]
    ELSE r

\* api.body is the 'items' list of the response.
get_show_episodes(c, d, t, srv, w, api) == Items(do_api_request(c, d, t, srv, w, api))

\* -------------------------------------------------------------- SpotifyFeed
\* The episode ids upstream.
EpisodeIds == {1, 2}

\* An item of the episodes response: its id, and whether its release_date has
\* the form YYYY-MM-DD (the API also gives YYYY-MM and YYYY).
Episodes == [id : EpisodeIds, day : BOOLEAN]

EpisodeLists == UNION {[1..n -> Episodes] : n \in 0..MaxUpstream}

\* episode['external_urls']['spotify']
EpisodeUrl(e) == <<"https://open.spotify.com/episode", e.id>>

\* The dict given to channel.episode_factory.
EpisodeRecord(e) ==
    [guid |-> e.id, link |-> EpisodeUrl(e), url |-> EpisodeUrl(e), mime_type |-> "text/html",
     file_size |-> -1]

\* A mutant of IsKnown: the test of line 619 never finds the id.
IsKnownNever(id, existing_guids) == FALSE

\* `episode['id'] not in existing_guids` is false.
IsKnown(id, existing_guids) == id \in existing_guids

\* The loop of lines 616-635 over the items left, acc = [new, seen, saves, exc].
\* rd[1] or rd[2] is an IndexError when the release date has no month or day.
RECURSIVE NewEpisodesLoop(_, _, _)
NewEpisodesLoop(items, existing_guids, acc) ==
    IF items = <<>> THEN acc
    ELSE LET e == Head(items)
             seen == Append(acc.seen, e.id)
         IN
         IF IsKnown(e.id, existing_guids)
         THEN NewEpisodesLoop(Tail(items), existing_guids, [acc EXCEPT !.seen = seen])
         ELSE IF ~e.day
         THEN [acc EXCEPT !.seen = seen, !.exc = "IndexError"]
         ELSE NewEpisodesLoop(Tail(items), existing_guids,
                              [new |-> Append(acc.new, EpisodeRecord(e)), seen |-> seen,
                               saves |-> acc.saves + 1, exc |-> "none"])

\* The loop's result on what get_show_episodes did.
Looped(r, done) ==
    [exc |-> done.exc, new |-> done.new, seen |-> done.seen, saves |-> done.saves,
     cache |-> r.cache, disk |-> r.disk, posts |-> r.posts, gets |-> r.gets,
     token |-> r.token]

\* r is what get_show_episodes did.
NewEpisodes(r, existing_guids) ==
    IF r.exc = "none"
    THEN Looped(r, NewEpisodesLoop(r.body, existing_guids,
                                   [new |-> <<>>, seen |-> <<>>, saves |-> 0, exc |-> "none"]))
    ELSE Looped(r, [new |-> <<>>, seen |-> <<>>, saves |-> 0, exc |-> r.exc])

\* saves: the number of new_episode.save() calls made.
get_new_episodes(c, d, t, srv, w, api, existing_guids) ==
    NewEpisodes(get_show_episodes(c, d, t, srv, w, api), existing_guids)

\* A mutant of Truthy: the test of `if info:` never succeeds.
TruthyNever(entry) == FALSE

\* `if info:` on a value get_podcast returned.
Truthy(entry) == entry.has /\ entry.d # EmptyInfo

\* info[key] of a dict: KeyError when the key is absent.
ValueOf(d, key) ==
    [exc |-> IF d[key] = Missing THEN "KeyError" ELSE "none",
     val |-> IF d[key] = Missing THEN NoneVal ELSE d[key]]

NameOf(d) == ValueOf(d, "name")

\* The info get_show_info returned, as the argument of set_podcast_info.
InfoArg(gi) == [isNone |-> gi.isNone, d |-> IF gi.isNone THEN EmptyInfo ELSE gi.body]

\* After the fetch: gi is what get_show_info did, sp what set_podcast_info did.
\* fetch: get_show_info was called.
FetchedKey(key, gi, sp) ==
    LET fetched == [cache |-> gi.cache, disk |-> gi.disk, posts |-> gi.posts,
                    gets |-> gi.gets, token |-> gi.token, fetch |-> TRUE]
        stored == [cache |-> sp.cache, disk |-> sp.disk, posts |-> gi.posts,
                   gets |-> gi.gets, token |-> gi.token, fetch |-> TRUE]
    IN
    IF gi.exc # "none" THEN fetched @@ [exc |-> gi.exc, val |-> NoneVal]
    ELSE IF sp.exc # "none" THEN stored @@ [exc |-> sp.exc, val |-> NoneVal]
    ELSE stored @@ ValueOf(gi.body, key)

Fetched(gi, sp) == FetchedKey("name", gi, sp)

\* The accessors' common body, reading info[key]: gp is what get_podcast
\* returned, gi what get_show_info does.
ReadThrough(key, gp, gi, c, d, show, w) ==
    LET quiet == [cache |-> c, disk |-> d, posts |-> 0, gets |-> 0, token |-> Missing,
                  fetch |-> FALSE]
    IN
    IF gp.exc # "none" THEN quiet @@ [exc |-> gp.exc, val |-> NoneVal]
    ELSE IF Truthy(gp.info) THEN quiet @@ ValueOf(gp.info.d, key)
    ELSE FetchedKey(key, gi, set_podcast_info(gi.cache, gi.disk, show, InfoArg(gi), w))

Title(gp, gi, c, d, show, w) == ReadThrough("name", gp, gi, c, d, show, w)

\* get_title: the cached or fetched info['name'].
get_title(c, d, t, show, srv, w, api) ==
    Title(get_podcast(c, show), get_show_info(c, d, t, srv, w, api), c, d, show, w)

\* get_description: the cached or fetched info['description'].
get_description(c, d, t, show, srv, w, api) ==
    ReadThrough("description", get_podcast(c, show), get_show_info(c, d, t, srv, w, api),
                c, d, show, w)

\* get_image: the cached or fetched info['images'][1]['url'].
get_image(c, d, t, show, srv, w, api) ==
    ReadThrough("images", get_podcast(c, show), get_show_info(c, d, t, srv, w, api),
                c, d, show, w)

\* ------------------------------------------------------------ show URLs
\* A str is the sequence of its characters.  'https://open.spotify.com/show/'
SHOW_URL_PREFIX ==
    <<"h", "t", "t", "p", "s", ":", "/", "/", "o", "p", "e", "n", ".", "s", "p", "o", "t",
      "i", "f", "y", ".", "c", "o", "m", "/", "s", "h", "o", "w", "/">>

\* s.startswith( p )
StartsWith(s, p) == Len(s) >= Len(p) /\ SubSeq(s, 1, Len(p)) = p

\* A mutant of Remove: only the first occurrence is removed.
RECURSIVE RemoveFirst(_, _)
RemoveFirst(s, old) ==
    IF s = <<>> THEN <<>>
    ELSE IF StartsWith(s, old) THEN SubSeq(s, Len(old) + 1, Len(s))
    ELSE <<Head(s)>> \o RemoveFirst(Tail(s), old)

\* s.replace( old, '' ): every occurrence of old, from the left, is removed.
RECURSIVE Remove(_, _)
Remove(s, old) ==
    IF s = <<>> THEN <<>>
    ELSE IF StartsWith(s, old) THEN Remove(SubSeq(s, Len(old) + 1, Len(s)), old)
    ELSE <<Head(s)>> \o Remove(Tail(s), old)

NotAShow == [isNone |-> TRUE, id |-> <<>>]

\* url is [isStr, chars]; the result is None or the id.
extract_show_id(url) ==
    IF ~url.isStr THEN NotAShow
    ELSE IF ~StartsWith(url.chars, SHOW_URL_PREFIX) THEN NotAShow
    ELSE LET show_id == Remove(Remove(url.chars, SHOW_URL_PREFIX), <<"/">>) IN
         IF Len(show_id) < 1 THEN NotAShow
         ELSE [isNone |-> FALSE, id |-> show_id]

\* The SpotifyFeed made, or None.
handle_url(url, max_episodes) ==
    LET show_id == extract_show_id(url) IN
    IF ~show_id.isNone
    THEN [isNone |-> FALSE, show_id |-> show_id.id, max_episodes |-> max_episodes]
    ELSE [isNone |-> TRUE, show_id |-> <<>>, max_episodes |-> 0]

\* ----------------------------------------------------------- SpotifyAPI OAuth
\* secrets.token_urlsafe: the n+1st random string drawn.  Random strings are
\* numbered in the order they are drawn; two draws never give the same string.
token_urlsafe(n) == n + 1

\* A state string that no draw of this process gives.
ForeignState == 0

\* base64url( sha256( verifier ) ) without padding.
generate_code_challenge(v) == <<"S256", v>>

\* Each generator returns [val, kept, nonce]: the returned value, the new value
\* of the class attribute, the new number of strings drawn.
\* A mutant of generate_code_verifier: the stored verifier is not reused.
generate_code_verifier_fresh(v, n) ==
    [val |-> token_urlsafe(n), kept |-> token_urlsafe(n), nonce |-> n + 1]

generate_code_verifier(v, n) ==
    IF v # NoneVal THEN [val |-> v, kept |-> v, nonce |-> n]
    ELSE [val |-> token_urlsafe(n), kept |-> token_urlsafe(n), nonce |-> n + 1]

generate_state(st, n) ==
    IF st # NoneVal THEN [val |-> st, kept |-> st, nonce |-> n]
    ELSE [val |-> token_urlsafe(n), kept |-> token_urlsafe(n), nonce |-> n + 1]

\* A mutant of reset_oauth_temp_data: the two attributes are left as they are.
reset_oauth_temp_data_keep(v, st) == [verifier |-> v, oauth_state |-> st]

reset_oauth_temp_data(v, st) == [verifier |-> NoneVal, oauth_state |-> NoneVal]

\* The record of one generator's returned values: the last one, the one before
\* it, whether a request_access_token succeeded between the two, and whether
\* one has succeeded since the last.
NoHistory == [last |-> NoneVal, prev |-> NoneVal, between |-> FALSE, since |-> FALSE]

\* No authorization URL has been built.
NoUrl == [code_challenge |-> <<>>, state |-> NoneVal]

\* The history of the session: the two generators' records, the authorization
\* URL built last, and whether a token exchange has succeeded since it was
\* built.
NoHistories == [v |-> NoHistory, s |-> NoHistory, url |-> NoUrl, used |-> FALSE]

Returned(h, val) == [last |-> val, prev |-> h.last, between |-> h.since, since |-> FALSE]

Exchanged(h) == [h EXCEPT !.since = TRUE]

\* The class attributes and the history as one record.
OAuth(v, st, n, h) == [verifier |-> v, oauth_state |-> st, nonce |-> n, hist |-> h]

build_oauth_url(o) ==
    LET gv == generate_code_verifier(o.verifier, o.nonce)
        gs == generate_state(o.oauth_state, gv.nonce)
        url == [code_challenge |-> generate_code_challenge(gv.val), state |-> gs.val]
    IN [url |-> url,
        oauth |-> OAuth(gv.kept, gs.kept, gs.nonce,
                        [v |-> Returned(o.hist.v, gv.val), s |-> Returned(o.hist.s, gs.val),
                         url |-> url, used |-> FALSE])]

\* The token endpoint on an authorization_code grant: urlopen raises, or the
\* grant is given.
GrantServer ==
    {ServerError} \cup
    {[kind |-> "json", resp |-> [access_token |-> t, refresh_token |-> t, scope |-> 1,
                                 expires_in |-> MaxExpiresIn]] : t \in 1..MaxTok}

\* sent: the code and the code_verifier of the POST.
request_access_token(o, c, d, code, t, srv, w) ==
    LET gv == generate_code_verifier(o.verifier, o.nonce)
        h1 == [o.hist EXCEPT !.v = Returned(o.hist.v, gv.val)]
        o1 == OAuth(gv.kept, o.oauth_state, gv.nonce, h1)
        sent == [code |-> code, code_verifier |-> gv.val]
        su == set_user_info(c, d, srv.resp, t, w)
        rs == reset_oauth_temp_data(o1.verifier, o1.oauth_state)
    IN
    IF srv.kind = "error"
    THEN [exc |-> "HTTPError", posts |-> 1, sent |-> sent, oauth |-> o1,
          cache |-> c, disk |-> d]
    ELSE IF su.exc # "none"
    THEN [exc |-> su.exc, posts |-> 1, sent |-> sent, oauth |-> o1,
          cache |-> su.cache, disk |-> su.disk]
    ELSE [exc |-> "none", posts |-> 1, sent |-> sent,
          oauth |-> OAuth(rs.verifier, rs.oauth_state, o1.nonce,
                          [h1 EXCEPT !.v = Exchanged(h1.v), !.s = Exchanged(h1.s),
                                     !.used = TRUE]),
          cache |-> su.cache, disk |-> su.disk]

\* ------------------------------------------------------------ gPodderExtension
\* The query of a redirect URI as parse_qs gives it: a parameter with an empty
\* value is not in it.  state and code are Missing or the value, error says
\* whether the key is there.
Redirects(n) ==
    [state : {Missing, ForeignState} \cup (1..n), error : BOOLEAN, code : {Missing, 1}]

\* A mutant of StateMatches: the comparison of line 721 always succeeds.
StateMatchesAny(state, expected) == TRUE

\* `state != SpotifyAPI.generate_state()` is false.
StateMatches(state, expected) == state = expected

NotSent == [code |-> Missing, code_verifier |-> NoneVal]

\* expected: what generate_state returned, NoneVal when it was not called.
handle_oauth_redirect(o, c, d, query, t, srv, w) ==
    LET gs == generate_state(o.oauth_state, o.nonce)
        o1 == IF query.state = Missing THEN o
              ELSE OAuth(o.verifier, gs.kept, gs.nonce,
                         [o.hist EXCEPT !.s = Returned(o.hist.s, gs.val)])
        expected == IF query.state = Missing THEN NoneVal ELSE gs.val
        is_valid == /\ query.state # Missing
                    /\ StateMatches(query.state, gs.val)
                    /\ ~query.error
        rq == request_access_token(o1, c, d, query.code, t, srv, w)
        stay == [posts |-> 0, sent |-> NotSent, oauth |-> o1, cache |-> c, disk |-> d,
                 expected |-> expected]
    IN
    IF ~is_valid THEN stay @@ [exc |-> "none"]
    ELSE IF query.code = Missing THEN stay @@ [exc |-> "UnboundLocalError"]
    ELSE rq @@ [expected |-> expected]

\* The id string of a subscribed show, and the URL of its channel.
ShowName(show) == <<<<"a", "b">>[show]>>

ShowUrl(show) == [isStr |-> TRUE, chars |-> SHOW_URL_PREFIX \o ShowName(show)]

\* The show of ShowIds with the id string `id`, 0 when there is none.
ShowOf(id) == IF \E s \in ShowIds : ShowName(s) = id
              THEN CHOOSE s \in ShowIds : ShowName(s) = id
              ELSE 0

\* channel is [isChannel, url]: isChannel is the isinstance test of line 850.
\* show: the show whose id went to delete_podcast_info, 0 when it was the id
\* of no cached or subscribed show, NoneVal when the call was not made.
on_podcast_delete(c, d, channel, w) ==
    LET show_id == extract_show_id(channel.url)
        same == [exc |-> "none", cache |-> c, disk |-> d]
    IN
    IF ~channel.isChannel THEN same @@ [show |-> NoneVal]
    ELSE IF show_id.isNone THEN same @@ [show |-> NoneVal]
    ELSE IF ShowOf(show_id.id) = 0
    THEN [exc |-> IF Usable(c) THEN "none" ELSE AccessError(c), cache |-> c, disk |-> d,
          show |-> 0]
    ELSE delete_podcast_info(c, d, ShowOf(show_id.id), w) @@ [show |-> ShowOf(show_id.id)]

\* ----------------------------------------------------------------- calls
Ret(op, exc, val, posts, gets, arg) ==
    [op |-> op, exc |-> exc, val |-> val, posts |-> posts, gets |-> gets, arg |-> arg]

NoCall == Ret("none", "none", NoneVal, 0, 0, <<>>)

\* Line 343: SpotifyAPI.reset_oauth_temp_data() when the module is loaded.
OAuthInit ==
    /\ verifier = reset_oauth_temp_data(NoneVal, NoneVal).verifier
    /\ oauth_state = reset_oauth_temp_data(NoneVal, NoneVal).oauth_state
    /\ nonce = 0
    /\ hist = NoHistories

\* Cache files a previous run of the extension can have left (entries pruned,
\* credentials as set_user_info writes them), and files it did not write.
WrittenUsers ==
    {EmptyUser,
     [access_token |-> 1, refresh_token |-> 1, scope |-> 1, expires_at |-> 1]}

WrittenPodcasts ==
    {EmptyPodcasts} \cup
    {[EmptyPodcasts EXCEPT ![s] = Entry(StoredInfo)] : s \in ShowIds}

WrittenDisks == {ObjectDoc(p, u) : p \in WrittenPodcasts, u \in WrittenUsers}

ForeignDisks ==
    {Plain("missing"), Plain("corrupt"), Plain("falsy"), Plain("num")}
    \cup {Doc(k, hp, hu, EmptyPodcasts, EmptyUser) :
             k \in {"list", "str"}, hp \in BOOLEAN, hu \in BOOLEAN}
    \cup {Doc("object", FALSE, TRUE, EmptyPodcasts, u) : u \in WrittenUsers}
    \cup {Doc("object", TRUE, FALSE, p, EmptyUser) : p \in WrittenPodcasts}

\* The arguments of set_podcast_info: None, or a dict with '_headers', with or
\* without the two big fields.
InfoArgs ==
    {[isNone |-> TRUE, d |-> EmptyInfo]}
    \cup {[isNone |-> FALSE, d |-> [d EXCEPT !["_headers"] = 1]] :
              d \in {i \in InfoDictsOver({"name", "available_markets", "episodes"}) :
                        /\ i["available_markets"] \in {Missing, 1}
                        /\ i["episodes"] \in {Missing, 1}}}

\* gPodderExtension.on_load: spotify_cache.load()
Load ==
    LET r == load(disk) IN
    /\ cache_info' = r.cache
    /\ ret' = Ret("load", r.exc, NoneVal, 0, 0, [disk |-> disk])
    /\ UNCHANGED <<disk, now>>
    /\ UNCHANGED oauthVars

GetUser ==
    LET r == get_user(cache_info) IN
    /\ ret' = Ret("get_user", r.exc, r.user, 0, 0, <<>>)
    /\ UNCHANGED <<cache_info, disk, now>>
    /\ UNCHANGED oauthVars

GetPodcast ==
    \E show \in ShowIds :
        LET r == get_podcast(cache_info, show) IN
        /\ ret' = Ret("get_podcast", r.exc, r.info, 0, 0, [show |-> show])
        /\ UNCHANGED <<cache_info, disk, now>>
        /\ UNCHANGED oauthVars

\* set_podcast_info called with an info of `infos`.
SetPodcastInfoOf(infos) ==
    \E show \in ShowIds, info \in infos, w \in WriteOutcomes :
        LET r == set_podcast_info(cache_info, disk, show, info, w) IN
        /\ cache_info' = r.cache
        /\ disk' = r.disk
        /\ ret' = Ret("set_podcast_info", r.exc, NoneVal, 0, 0,
                      [show |-> show, info |-> info, infoAfter |-> r.info, w |-> w])
        /\ UNCHANGED now
        /\ UNCHANGED oauthVars

SetPodcastInfo == SetPodcastInfoOf(InfoArgs)

DeletePodcastInfo ==
    \E show \in ShowIds, w \in WriteOutcomes :
        LET r == delete_podcast_info(cache_info, disk, show, w) IN
        /\ cache_info' = r.cache
        /\ disk' = r.disk
        /\ ret' = Ret("delete_podcast_info", r.exc, NoneVal, 0, 0, [show |-> show, w |-> w])
        /\ UNCHANGED now
        /\ UNCHANGED oauthVars

InitCache ==
    /\ cache_info = Unset
    /\ disk \in WrittenDisks \cup ForeignDisks
    /\ now = 0
    /\ OAuthInit
    /\ ret = NoCall

NextCache == Load \/ GetUser \/ GetPodcast \/ SetPodcastInfo \/ DeletePodcastInfo

SpecCache == InitCache /\ [][NextCache]_vars

\* ------------------------------------------------------------- token spec
Credentials ==
    [access_token : {Missing} \cup (1..MaxTok), refresh_token : {Missing} \cup (1..MaxTok),
     scope : {Missing, 1}, expires_at : {Missing} \cup (0..(NowSeconds(MaxNow) + MaxExpiresIn))]

\* The clock advances.
Tick ==
    /\ now < MaxNow
    /\ now' = now + 1
    /\ UNCHANGED <<cache_info, disk, ret>>
    /\ UNCHANGED oauthVars

IsTokenExpired ==
    \E user \in {u \in Credentials : /\ u.access_token = Missing
                                      /\ u.refresh_token = Missing
                                      /\ u.scope = Missing} :
        /\ ret' = Ret("is_token_expired", "none", is_token_expired(user, now), 0, 0,
                      [user |-> user, now |-> now])
        /\ UNCHANGED <<cache_info, disk, now>>
        /\ UNCHANGED oauthVars

TokenCalled(r) ==
    /\ cache_info' = r.cache
    /\ disk' = r.disk
    /\ ret' = Ret("get_token", r.exc, r.val, r.posts, 0,
                  [refresh |-> r.refresh, answered |-> r.answered, answer |-> r.answer,
                   now |-> now])
    /\ UNCHANGED now
    /\ UNCHANGED oauthVars

GetToken ==
    \E srv \in ServerChoices(get_token(cache_info, disk, now, ServerError, "ok").posts,
                              TokenServer) :
      \E w \in WriteChoices(srv) :
        TokenCalled(get_token(cache_info, disk, now, srv, w))

\* After on_load with a cache file of an earlier run, or none.
InitToken ==
    /\ \E u \in WrittenUsers :
          /\ cache_info = ObjectDoc(EmptyPodcasts, u)
          /\ disk = IF u = EmptyUser THEN Plain("missing") ELSE ObjectDoc(EmptyPodcasts, u)
    /\ now = 0
    /\ OAuthInit
    /\ ret = NoCall

NextToken == Tick \/ IsTokenExpired \/ GetToken

SpecToken == InitToken /\ [][NextToken]_vars

\* ------------------------------------------------------------- OAuth spec
Session == OAuth(verifier, oauth_state, nonce, hist)

SetSession(o) ==
    /\ o.nonce <= MaxNonce
    /\ verifier' = o.verifier
    /\ oauth_state' = o.oauth_state
    /\ nonce' = o.nonce
    /\ hist' = o.hist

GenerateCodeVerifier ==
    LET g == generate_code_verifier(verifier, nonce) IN
    /\ SetSession(OAuth(g.kept, oauth_state, g.nonce,
                        [hist EXCEPT !.v = Returned(hist.v, g.val)]))
    /\ ret' = Ret("generate_code_verifier", "none", g.val, 0, 0, <<>>)
    /\ UNCHANGED storeVars

GenerateState ==
    LET g == generate_state(oauth_state, nonce) IN
    /\ SetSession(OAuth(verifier, g.kept, g.nonce,
                        [hist EXCEPT !.s = Returned(hist.s, g.val)]))
    /\ ret' = Ret("generate_state", "none", g.val, 0, 0, <<>>)
    /\ UNCHANGED storeVars

\* _open_settings: webview_oauth.load_uri( SpotifyAPI.build_oauth_url() )
BuildOauthUrl ==
    LET r == build_oauth_url(Session) IN
    /\ SetSession(r.oauth)
    /\ ret' = Ret("build_oauth_url", "none", r.url, 0, 0, <<>>)
    /\ UNCHANGED storeVars

RequestAccessToken ==
    \E srv \in GrantServer :
      \E w \in WriteChoices(srv) :
        LET r == request_access_token(Session, cache_info, disk, 1, now, srv, w) IN
        /\ SetSession(r.oauth)
        /\ cache_info' = r.cache
        /\ disk' = r.disk
        /\ ret' = Ret("request_access_token", r.exc, NoneVal, r.posts, 0,
                      [sent |-> r.sent])
        /\ UNCHANGED now

\* The queries whose state is absent, foreign, or one of `states`.
RedirectsOf(states) ==
    [state : {Missing, ForeignState} \cup states, error : BOOLEAN, code : {Missing, 1}]

\* _webview_oauth_changed: a redirect to SPOTIFY_REDIRECT_URI with a query of
\* `queries`
HandleOauthRedirectOf(queries) ==
    \E query \in queries :
      \E srv \in ServerChoices(handle_oauth_redirect(Session, cache_info, disk, query, now,
                                                     ServerError, "ok").posts, GrantServer) :
      \E w \in WriteChoices(srv) :
        LET r == handle_oauth_redirect(Session, cache_info, disk, query, now, srv, w) IN
        /\ SetSession(r.oauth)
        /\ cache_info' = r.cache
        /\ disk' = r.disk
        /\ ret' = Ret("handle_oauth_redirect", r.exc, NoneVal, r.posts, 0,
                      [query |-> query, expected |-> r.expected, sent |-> r.sent])
        /\ UNCHANGED now

\* _webview_oauth_changed: a redirect to SPOTIFY_REDIRECT_URI
HandleOauthRedirect == HandleOauthRedirectOf(Redirects(nonce))

InitOAuth ==
    /\ \E u \in WrittenUsers :
          /\ cache_info = ObjectDoc(EmptyPodcasts, u)
          /\ disk = IF u = EmptyUser THEN Plain("missing") ELSE ObjectDoc(EmptyPodcasts, u)
    /\ now = 0
    /\ OAuthInit
    /\ ret = NoCall

NextOAuth ==
    \/ GenerateCodeVerifier
    \/ GenerateState
    \/ BuildOauthUrl
    \/ RequestAccessToken
    \/ HandleOauthRedirect

SpecOAuth == InitOAuth /\ [][NextOAuth]_vars

\* -------------------------------------------------------------- feed spec
\* The token endpoint as the feed calls meet it: urlopen raises, an answer
\* without access_token, or a grant.
FeedTokenServer ==
    {ServerError, [kind |-> "json", resp |-> NoResponse],
     [kind |-> "json", resp |-> [access_token |-> MaxTok, refresh_token |-> Missing,
                                 scope |-> 1, expires_in |-> MaxExpiresIn]]}

\* The API server holds `upstream` and answers with its first page, or fails.
EpisodeApis(max_episodes) ==
    {ApiError} \cup {ApiJson(Page(upstream, Limit(max_episodes))) : upstream \in EpisodeLists}

\* The show object of the API in its version v: name, description and image
\* URL are always there and differ from each other and from the other
\* versions; big says whether 'available_markets' and 'episodes' are there.
ShowObject(v, big) ==
    [name |-> v, description |-> MaxMeta + v, images |-> 2 * MaxMeta + v,
     available_markets |-> big, episodes |-> big, _headers |-> Missing]

ShowObjects == {ShowObject(v, big) : v \in 1..MaxMeta, big \in {Missing, 1}}

InfoApis == {ApiError} \cup {ApiJson(body) : body \in ShowObjects}

\* The max_episodes a feed is made with.
MaxEpisodes == {0, 1}

\* The call before this one, when it was the same call with the same inputs.
Before(op, inputs) ==
    IF ret.op = op /\ ret.arg.inputs = inputs
    THEN [called |-> TRUE, exc |-> ret.exc, val |-> ret.val, saves |-> ret.arg.saves]
    ELSE [called |-> FALSE, exc |-> "none", val |-> NoneVal, saves |-> 0]

\* The assignments of a call r on the API and the cache.
Called(r, op, val, arg) ==
    /\ cache_info' = r.cache
    /\ disk' = r.disk
    /\ ret' = Ret(op, r.exc, val, r.posts, r.gets, arg)
    /\ UNCHANGED now
    /\ UNCHANGED oauthVars

ShowInfoCalled(r) ==
    Called(r, "get_show_info", IF r.isNone THEN NoneVal ELSE r.body, [token |-> r.token])

GetShowInfo ==
    \E srv \in ServerChoices(get_show_info(cache_info, disk, now, ServerError, "ok",
                                            ApiError).posts, FeedTokenServer) :
      \E w \in WriteChoices(srv) :
      \E api \in ApiChoices(get_show_info(cache_info, disk, now, srv, w, ApiError).gets,
                             InfoApis) :
        ShowInfoCalled(get_show_info(cache_info, disk, now, srv, w, api))

ShowEpisodesCalled(r, max_episodes) ==
    Called(r, "get_show_episodes", r.body, [token |-> r.token, limit |-> Limit(max_episodes)])

GetShowEpisodes ==
    \E max_episodes \in MaxEpisodes :
      \E srv \in ServerChoices(get_show_episodes(cache_info, disk, now, ServerError, "ok",
                                                 ApiError).posts, FeedTokenServer) :
      \E w \in WriteChoices(srv) :
      \E api \in ApiChoices(get_show_episodes(cache_info, disk, now, srv, w, ApiError).gets,
                             EpisodeApis(max_episodes)) :
        ShowEpisodesCalled(get_show_episodes(cache_info, disk, now, srv, w, api), max_episodes)

NewEpisodesCalled(r, inputs) ==
    Called(r, "get_new_episodes", [new |-> r.new, seen |-> r.seen],
           [token |-> r.token, inputs |-> inputs, saves |-> r.saves,
            before |-> Before("get_new_episodes", inputs)])

GetNewEpisodes ==
    \E max_episodes \in MaxEpisodes, existing_guids \in SUBSET EpisodeIds :
      \E srv \in ServerChoices(get_show_episodes(cache_info, disk, now, ServerError, "ok",
                                                 ApiError).posts, FeedTokenServer) :
      \E w \in WriteChoices(srv) :
      \E api \in ApiChoices(get_show_episodes(cache_info, disk, now, srv, w, ApiError).gets,
                             EpisodeApis(max_episodes)) :
        NewEpisodesCalled(
            get_new_episodes(cache_info, disk, now, srv, w, api, existing_guids),
            [max_episodes |-> max_episodes, existing_guids |-> existing_guids, api |-> api])

\* The assignments of an accessor's call.
AccessorCalled(r, op, show, api) ==
    Called(r, op, r.val, [token |-> r.token, show |-> show, fetch |-> r.fetch, api |-> api])

TitleCalled(r, show, api) == AccessorCalled(r, "get_title", show, api)

GetTitle ==
    \E show \in ShowIds :
      \E srv \in ServerChoices(get_title(cache_info, disk, now, show, ServerError, "ok",
                                         ApiError).posts, FeedTokenServer) :
      \E w \in WriteOutcomes :
      \E api \in ApiChoices(get_title(cache_info, disk, now, show, srv, w, ApiError).gets,
                             InfoApis) :
        TitleCalled(get_title(cache_info, disk, now, show, srv, w, api), show, api)

GetDescription ==
    \E show \in ShowIds :
      \E srv \in ServerChoices(get_description(cache_info, disk, now, show, ServerError, "ok",
                                               ApiError).posts, FeedTokenServer) :
      \E w \in WriteOutcomes :
      \E api \in ApiChoices(get_description(cache_info, disk, now, show, srv, w,
                                            ApiError).gets, InfoApis) :
        AccessorCalled(get_description(cache_info, disk, now, show, srv, w, api),
                       "get_description", show, api)

\* get_image, also as get_cover_url
GetImage ==
    \E show \in ShowIds :
      \E srv \in ServerChoices(get_image(cache_info, disk, now, show, ServerError, "ok",
                                         ApiError).posts, FeedTokenServer) :
      \E w \in WriteOutcomes :
      \E api \in ApiChoices(get_image(cache_info, disk, now, show, srv, w, ApiError).gets,
                             InfoApis) :
        AccessorCalled(get_image(cache_info, disk, now, show, srv, w, api),
                       "get_image", show, api)

\* The channels the host removes: a subscribed show's (its URL with or without
\* a final slash), one with another URL, and a model that is no channel.
Channels ==
    {[isChannel |-> FALSE, url |-> [isStr |-> FALSE, chars |-> <<>>]],
     [isChannel |-> TRUE, url |-> [isStr |-> TRUE, chars |-> <<"h", "t", "t", "p">>]],
     [isChannel |-> TRUE, url |-> [isStr |-> TRUE, chars |-> SHOW_URL_PREFIX \o <<"a", "b">>]]}
    \cup {[isChannel |-> TRUE, url |-> ShowUrl(s)] : s \in ShowIds}
    \cup {[isChannel |-> TRUE, url |-> [isStr |-> TRUE, chars |-> ShowUrl(s).chars \o <<"/">>]] :
             s \in ShowIds}

OnPodcastDelete ==
    \E channel \in Channels, w \in WriteOutcomes :
        LET r == on_podcast_delete(cache_info, disk, channel, w) IN
        /\ cache_info' = r.cache
        /\ disk' = r.disk
        /\ ret' = Ret("on_podcast_delete", r.exc, NoneVal, 0, 0,
                      [channel |-> channel, show |-> r.show])
        /\ UNCHANGED now
        /\ UNCHANGED oauthVars

\* Credentials of an earlier run: none, one still valid at time 0, one expired.
FeedUsers ==
    WrittenUsers \cup {[access_token |-> 1, refresh_token |-> 1, scope |-> 1, expires_at |-> 0]}

InitFeed ==
    /\ \E u \in FeedUsers :
          /\ cache_info = ObjectDoc(EmptyPodcasts, u)
          /\ disk = IF u = EmptyUser THEN Plain("missing") ELSE ObjectDoc(EmptyPodcasts, u)
    /\ now = 0
    /\ OAuthInit
    /\ ret = NoCall

NextFeed == GetShowInfo \/ GetShowEpisodes \/ GetNewEpisodes

SpecFeed == InitFeed /\ [][NextFeed]_vars

\* ---------------------------------------------------------- metadata spec
\* After on_load: the cache file of an earlier run, with no podcast or one.
InitMeta ==
    /\ \E u \in FeedUsers, p \in WrittenPodcasts :
          /\ cache_info = ObjectDoc(p, u)
          /\ disk = cache_info
    /\ now = 0
    /\ OAuthInit
    /\ ret = NoCall

NextMeta == GetTitle \/ GetDescription \/ GetImage \/ OnPodcastDelete

SpecMeta == InitMeta /\ [][NextMeta]_vars

\* --------------------------------------------------------------- URL spec
UrlChars == {"a", "b", "/"}

Tails == UNION {[1..n -> UrlChars] : n \in 0..MaxTail}

\* Strings with the prefix, with the prefix twice, with the prefix cut short,
\* without it; and values that are no str.
Urls ==
    {[isStr |-> TRUE, chars |-> SHOW_URL_PREFIX \o t] : t \in Tails}
    \cup {[isStr |-> TRUE, chars |-> SHOW_URL_PREFIX \o SHOW_URL_PREFIX \o t] : t \in Tails}
    \cup {[isStr |-> TRUE, chars |-> SubSeq(SHOW_URL_PREFIX, 1, Len(SHOW_URL_PREFIX) - 1) \o t] :
             t \in Tails}
    \cup {[isStr |-> TRUE, chars |-> t] : t \in Tails}
    \cup {[isStr |-> FALSE, chars |-> <<>>]}

ExtractShowId ==
    \E url \in Urls :
        /\ ret' = Ret("extract_show_id", "none", extract_show_id(url), 0, 0, [url |-> url])
        /\ UNCHANGED storeVars
        /\ UNCHANGED oauthVars

HandleUrl ==
    \E url \in Urls, max_episodes \in MaxEpisodes :
        /\ ret' = Ret("handle_url", "none", handle_url(url, max_episodes), 0, 0,
                      [url |-> url])
        /\ UNCHANGED storeVars
        /\ UNCHANGED oauthVars

InitUrl ==
    /\ cache_info = Unset
    /\ disk = Plain("missing")
    /\ now = 0
    /\ OAuthInit
    /\ ret = NoCall

NextUrl == ExtractShowId \/ HandleUrl

SpecUrl == InitUrl /\ [][NextUrl]_vars

\* --------------------------------------------------------- credential spec
\* Token responses as set_user_info can be given them, with a field it does
\* not know ('token_type').
UserInfos ==
    [access_token : {Missing, MaxTok}, refresh_token : {Missing, MaxTok},
     scope : {Missing, 1}, expires_in : {Missing, MaxExpiresIn},
     token_type : {Missing, 1}]

\* set_user_info called with a response of `infos`.
SetUserInfoOf(infos) ==
    \E info \in infos, w \in WriteOutcomes :
        LET r == set_user_info(cache_info, disk, info, now, w) IN
        /\ cache_info' = r.cache
        /\ disk' = r.disk
        /\ ret' = Ret("set_user_info", r.exc, NoneVal, 0, 0,
                      [info |-> info, w |-> w])
        /\ UNCHANGED now
        /\ UNCHANGED oauthVars

SetUserInfo == SetUserInfoOf(UserInfos)

\* After on_load with the cache file of an earlier run: one podcast entry and
\* no credential or a full one.
InitUser ==
    /\ \E u \in WrittenUsers :
          /\ cache_info = ObjectDoc([EmptyPodcasts EXCEPT ![1] = Entry(StoredInfo)], u)
          /\ disk = cache_info
    /\ now = 0
    /\ OAuthInit
    /\ ret = NoCall

NextUser == Tick \/ SetUserInfo

SpecUser == InitUser /\ [][NextUser]_vars

\* ------------------------------------------------------------ store spec
\* After on_load with the cache file of an earlier run.
InitStore ==
    /\ cache_info \in WrittenDisks
    /\ disk = cache_info
    /\ now = 0
    /\ OAuthInit
    /\ ret = NoCall

\* The token responses and show infos stored in this specification: a grant
\* with and without a new refresh token, and one show info.
StoreUserInfos ==
    {u \in UserInfos : /\ u.access_token # Missing /\ u.scope # Missing
                        /\ u.expires_in # Missing /\ u.token_type # Missing}

StoreInfoArgs ==
    {i \in InfoArgs : ~i.isNone /\ i.d["name"] = MaxVal /\ i.d["episodes"] = Missing
                       /\ i.d["available_markets"] # Missing}

NextStore ==
    \/ SetUserInfoOf(StoreUserInfos)
    \/ SetPodcastInfoOf(StoreInfoArgs)
    \/ DeletePodcastInfo

SpecStore == InitStore /\ [][NextStore]_vars

\* ----------------------------------------------------------- session spec
\* The settings dialog builds authorization URLs and receives redirects;
\* request_access_token is also called on its own.  The state of a redirect is
\* absent, foreign (a string that is not the session's state, as the state of
\* an older URL), or the one the last authorization URL carried: the other
\* random strings never leave the process.
NextSession ==
    \/ BuildOauthUrl
    \/ HandleOauthRedirectOf(RedirectsOf({hist.url.state} \ {NoneVal}))
    \/ RequestAccessToken

SpecSession == InitOAuth /\ [][NextSession]_vars

\* ------------------------------------------------------------------ claims
\* C1: a redirect whose state parameter is absent or differs from the state
\* generated in this session, or that carries an error parameter, leads to no
\* request to the token endpoint and leaves the stored credential (and the
\* cache file) unchanged.
C1_BadRedirectNoExchange ==
    [][(ret'.op = "handle_oauth_redirect"
            /\ (\/ ret'.arg.query.state = Missing
                \/ ret'.arg.query.state # ret'.arg.expected
                \/ ret'.arg.query.error))
        => (ret'.posts = 0 /\ cache_info' = cache_info /\ disk' = disk)]_vars

C1_Witness ==
    /\ ret.op = "handle_oauth_redirect"
    /\ ret.arg.query.state \notin {Missing, ForeignState}
    /\ ret.arg.query.state # ret.arg.expected
    /\ ~ret.arg.query.error /\ ret.arg.query.code # Missing
    /\ ret.posts = 0 /\ ret.exc = "none"

\* C2: a redirect whose state matches the session's state, without error
\* parameter and without code parameter, makes _handle_oauth_redirect return
\* normally, with no exception reaching the caller and no token exchange.
C2_MissingCodeAborts ==
    (/\ ret.op = "handle_oauth_redirect"
     /\ ret.arg.query.state # Missing
     /\ ret.arg.query.state = ret.arg.expected
     /\ ~ret.arg.query.error
     /\ ret.arg.query.code = Missing)
    => (ret.exc = "none" /\ ret.posts = 0)

C4_RejectedRefreshKeepsStore ==
    [][(ret'.op = "get_token" /\ ret'.arg.answered
            /\ ret'.arg.answer.access_token = Missing)
        => (ret'.exc = "none" /\ ret'.val = NoneVal
            /\ cache_info' = cache_info /\ disk' = disk)]_vars

C4_Witness ==
    /\ ret.op = "get_token" /\ ret.arg.answered
    /\ ret.arg.answer.access_token = Missing
    /\ ret.arg.answer.refresh_token # Missing /\ ret.arg.answer.expires_in # Missing
    /\ ret.val = NoneVal

\* C5: when get_token yields None, the callers skip the cycle: no GET is sent
\* and the call returns to the host without an error.
C5_NoTokenSkipsCycle ==
    (ret.op \in {"get_show_info", "get_show_episodes", "get_new_episodes", "get_title"}
        /\ ret.arg.token = NoneVal)
    => (ret.exc = "none" /\ ret.gets = 0)

\* C6: load() never fails, whatever the cache file holds, and leaves
\* cache_info a dict with the maps 'podcasts' and 'user', on which the
\* accessors work.
C6_LoadNeverFails ==
    /\ ret.op = "load" => (ret.exc = "none" /\ Usable(cache_info))
    /\ (cache_info.kind # "unset" /\ ret.op \in {"get_user", "get_podcast",
                                                  "delete_podcast_info"})
          => ret.exc = "none"

\* C7: after set_podcast_info(id, info), get_podcast(id) has neither
\* 'available_markets' nor 'episodes' and every other key as in info; the
\* caller's info is not modified; no entry of the podcasts map has either key.
C7_PrunedRoundTrip ==
    /\ (ret.op = "set_podcast_info" /\ ret.exc = "none") =>
          LET e == get_podcast(cache_info, ret.arg.show).info IN
          /\ e.has
          /\ e.d["available_markets"] = Missing /\ e.d["episodes"] = Missing
          /\ \A k \in InfoKeys \ {"available_markets", "episodes"} :
                e.d[k] = ret.arg.info.d[k]
          /\ ret.arg.infoAfter = ret.arg.info
    /\ Usable(cache_info) =>
          \A s \in ShowIds :
              /\ cache_info.podcasts[s].d["available_markets"] = Missing
              /\ cache_info.podcasts[s].d["episodes"] = Missing

C7_Witness ==
    /\ ret.op = "set_podcast_info" /\ ret.exc = "none"
    /\ ret.arg.info.d["available_markets"] # Missing
    /\ ret.arg.info.d["episodes"] # Missing
    /\ ret.arg.info.d["name"] # Missing
    /\ get_podcast(cache_info, ret.arg.show).info.d["name"] = ret.arg.info.d["name"]

\* C8: get_new_episodes called twice in a row with the same existing_guids
\* and the same upstream episodes, none of them new, gives no new record and
\* the same all_seen_guids both times, and saves no episode.
C8_RefetchIdempotent ==
    (/\ ret.op = "get_new_episodes" /\ ret.exc = "none"
     /\ ret.arg.before.called /\ ret.arg.before.exc = "none"
     /\ \A i \in DOMAIN ret.arg.inputs.api.body :
           ret.arg.inputs.api.body[i].id \in ret.arg.inputs.existing_guids)
    => (/\ ret.val.new = <<>> /\ ret.arg.before.val.new = <<>>
        /\ ret.val.seen = ret.arg.before.val.seen
        /\ ret.arg.saves = 0 /\ ret.arg.before.saves = 0)

C8_Witness ==
    /\ ret.op = "get_new_episodes" /\ ret.exc = "none"
    /\ ret.arg.before.called /\ ret.arg.before.exc = "none"
    /\ Len(ret.arg.inputs.api.body) = MaxUpstream
    /\ \A i \in DOMAIN ret.arg.inputs.api.body :
          ret.arg.inputs.api.body[i].id \in ret.arg.inputs.existing_guids
    /\ Len(ret.val.seen) = MaxUpstream /\ ret.val.seen = ret.arg.before.val.seen

\* C9: is_token_expired is true when expires_at is absent, and otherwise true
\* exactly when now >= expires_at, equality included.
C9_ExpiryBoundary ==
    ret.op = "is_token_expired" =>
        (ret.val <=> (\/ ret.arg.user.expires_at = Missing
                      \/ ret.arg.now >= ret.arg.user.expires_at * TicksPerSecond))

C9_Witness ==
    /\ ret.op = "is_token_expired"
    /\ ret.arg.user.expires_at > 0
    /\ ret.arg.now = ret.arg.user.expires_at * TicksPerSecond
    /\ ret.val = TRUE

\* The part of a string after the prefix it starts with.
C10_Rest(chars) == SubSeq(chars, Len(SHOW_URL_PREFIX) + 1, Len(chars))

\* The <id> of prefix + <id> or prefix + <id> + '/'.
C10_Id(chars) ==
    LET rest == C10_Rest(chars) IN
    IF rest # <<>> /\ rest[Len(rest)] = "/" THEN SubSeq(rest, 1, Len(rest) - 1) ELSE rest

\* chars is prefix + <id>, optionally followed by '/', <id> not empty and
\* without '/'.
C10_IsShowUrl(chars) ==
    /\ StartsWith(chars, SHOW_URL_PREFIX)
    /\ C10_Id(chars) # <<>>
    /\ \A i \in DOMAIN C10_Id(chars) : C10_Id(chars)[i] # "/"

C10_NotSlash(ch) == ch # "/"

C10_HasPrefixInside(s) ==
    \E i \in 1..Len(s) : StartsWith(SubSeq(s, i, Len(s)), SHOW_URL_PREFIX)

\* C10 as stated: extract_show_id returns <id> for prefix + <id> [+ '/'], and
\* None for every other string and every value that is no string.
C10_ShowUrlsOnly ==
    ret.op = "extract_show_id" =>
        IF ret.arg.url.isStr /\ C10_IsShowUrl(ret.arg.url.chars)
        THEN ret.val = [isNone |-> FALSE, id |-> C10_Id(ret.arg.url.chars)]
        ELSE ret.val.isNone

\* C10 as amended: extract_show_id returns <id> for prefix + <id> [+ '/'] with
\* <id> free of '/'; None for a string without the prefix and for a value that
\* is no string; and for any other string with the prefix, in which the prefix
\* does not occur again, what follows the prefix without its slashes, None if
\* that is empty.  handle_url makes a feed exactly when an id is returned.
C10_ExtractShowId ==
    /\ ret.op = "extract_show_id" =>
          LET url == ret.arg.url IN
          /\ (url.isStr /\ C10_IsShowUrl(url.chars))
                => ret.val = [isNone |-> FALSE, id |-> C10_Id(url.chars)]
          /\ (~url.isStr \/ ~StartsWith(url.chars, SHOW_URL_PREFIX)) => ret.val.isNone
          /\ (url.isStr /\ StartsWith(url.chars, SHOW_URL_PREFIX)
                /\ ~C10_HasPrefixInside(C10_Rest(url.chars)))
                => LET kept == SelectSeq(C10_Rest(url.chars), C10_NotSlash) IN
                   ret.val = IF kept = <<>> THEN NotAShow ELSE [isNone |-> FALSE, id |-> kept]
    /\ ret.op = "handle_url" =>
          /\ ret.val.isNone <=> extract_show_id(ret.arg.url).isNone
          /\ ~ret.val.isNone => ret.val.show_id = extract_show_id(ret.arg.url).id

C10_Witness ==
    /\ ret.op = "extract_show_id"
    /\ ret.arg.url.chars = SHOW_URL_PREFIX \o <<"a", "/", "b">>
    /\ ret.val = [isNone |-> FALSE, id |-> <<"a", "b">>]

\* The stored credential is expired or has no access_token.
C11_Stale(user, t) ==
    \/ user.expires_at = Missing
    \/ NowSeconds(t) >= user.expires_at
    \/ user.access_token = Missing

\* C11: get_token sends a request to the token endpoint exactly when the
\* stored credential is expired or has no access_token; otherwise it returns
\* the stored access_token without a request and without a change of the
\* store.  After a refresh that was answered with an access_token and a
\* positive expires_in, a get_token call before the new expires_at returns
\* that token again and sends no request.
C11_RefreshIffStale ==
    [][(ret'.op = "get_token" /\ now' = now) =>
          /\ (ret'.posts = 1) <=> C11_Stale(cache_info.user, now)
          /\ ~C11_Stale(cache_info.user, now) =>
                /\ ret'.exc = "none" /\ ret'.val = cache_info.user.access_token
                /\ cache_info' = cache_info /\ disk' = disk
          /\ (/\ ret.op = "get_token" /\ ret.exc = "none" /\ ret.arg.answered
              /\ ret.arg.answer.access_token # Missing
              /\ ret.arg.answer.expires_in # Missing /\ ret.arg.answer.expires_in > 0
              /\ NowSeconds(now) < NowSeconds(ret.arg.now) + ret.arg.answer.expires_in)
             => (ret'.exc = "none" /\ ret'.val = ret.val /\ ret'.posts = 0)]_vars

\* C12: whatever credential get_user returns, the empty one and one without
\* refresh_token included, get_token returns an access token or None and
\* raises nothing (a call on which urlopen itself fails is left aside).
C12_GetTokenNeverRaises ==
    (ret.op = "get_token" /\ (ret.posts = 0 \/ ret.arg.answered))
    => ret.exc = "none"

\* C13: set_user_info merges: access_token, refresh_token and scope take the
\* response's value when the response has the key and keep their value when
\* it has not; expires_at is written only when the response has expires_in,
\* and is then the clock (in whole seconds) plus expires_in; a field of the
\* response that is not recognized is not stored; the podcasts map does not
\* change.
C13_SetUserInfoMerges ==
    [][(ret'.op = "set_user_info" /\ now' = now) =>
          LET u == cache_info.user
              u2 == cache_info'.user
              info == ret'.arg.info
          IN
          /\ ret'.exc = "none"
          /\ \A k \in {"access_token", "refresh_token", "scope"} :
                u2[k] = IF info[k] # Missing THEN info[k] ELSE u[k]
          /\ u2.expires_at = IF info.expires_in # Missing
                             THEN (now \div TicksPerSecond) + info.expires_in
                             ELSE u.expires_at
          /\ DOMAIN u2 = {"access_token", "refresh_token", "scope", "expires_at"}
          /\ cache_info'.podcasts = cache_info.podcasts]_vars

C13_Witness ==
    /\ ret.op = "set_user_info" /\ ret.exc = "none"
    /\ ret.arg.info.access_token # Missing /\ ret.arg.info.refresh_token = Missing
    /\ ret.arg.info.expires_in = MaxExpiresIn /\ ret.arg.info.token_type # Missing
    /\ now = MaxNow
    /\ cache_info.user.refresh_token = 1
    /\ cache_info.user.access_token = MaxTok
    /\ cache_info.user.expires_at = (MaxNow \div TicksPerSecond) + MaxExpiresIn
    /\ cache_info.podcasts[1].has

\* The key of the show info that an accessor returns.
C14_Key(op) ==
    IF op = "get_title" THEN "name" ELSE IF op = "get_description" THEN "description"
    ELSE "images"

C14_Accessors == {"get_title", "get_description", "get_image"}

\* The step is a call of an accessor in which the GET of get_show_info was
\* sent and answered.
C14_FetchedNow == ret'.gets = 1 /\ ret'.arg.api.kind = "json"

\* C14: an accessor called for a show that has an entry in the cache returns
\* the cached value and sends no request; called for a show without entry it
\* calls get_show_info once and, when the fetch is answered, stores the pruned
\* response under the show id and returns the value of the response.  An
\* entry, once stored, leaves the cache only through a delete, so a show's
\* metadata is fetched at most once between deletes.
C14_ReadThrough ==
    [][/\ ret'.op \in C14_Accessors =>
            LET show == ret'.arg.show
                key == C14_Key(ret'.op)
                e == cache_info.podcasts[show]
                e2 == cache_info'.podcasts[show]
            IN
            /\ e.has =>
                  /\ ret'.gets = 0 /\ ret'.posts = 0 /\ ~ret'.arg.fetch
                  /\ ret'.exc = "none" /\ ret'.val = e.d[key]
                  /\ cache_info' = cache_info /\ disk' = disk
            /\ ~e.has => (ret'.arg.fetch /\ ret'.gets <= 1)
            /\ (~e.has /\ C14_FetchedNow) =>
                  /\ ret'.exc = "none" /\ ret'.val = ret'.arg.api.body[key]
                  /\ e2.has
                  /\ \A k \in {"name", "description", "images"} :
                        e2.d[k] = ret'.arg.api.body[k]
                  /\ e2.d["available_markets"] = Missing /\ e2.d["episodes"] = Missing
                  /\ \A s \in ShowIds \ {show} :
                        cache_info'.podcasts[s] = cache_info.podcasts[s]
       /\ \A s \in ShowIds :
             (cache_info.podcasts[s].has /\ ~cache_info'.podcasts[s].has)
                => ret'.op = "on_podcast_delete"]_vars

\* A hit on an entry that a fetch of this run stored (the API's version
\* MaxMeta is in no cache file of an earlier run).
C14_Witness ==
    /\ ret.op = "get_image" /\ ~ret.arg.fetch /\ ret.gets = 0
    /\ ret.val = 2 * MaxMeta + MaxMeta
    /\ cache_info.podcasts[ret.arg.show].d["name"] = MaxMeta

\* The step is a call of an accessor whose fetch failed: get_show_info was
\* called and raised or returned None.
C15_FetchFailedNow ==
    /\ ret'.op \in C14_Accessors /\ ret'.arg.fetch
    /\ ~(ret'.gets = 1 /\ ret'.arg.api.kind = "json")

\* C15: when the fetch of an accessor fails, the podcasts map in memory is as
\* before, the cache file gets no entry for the show and none with another
\* content, and the next accessor call for the show calls get_show_info
\* again.
C15_NoNegativeCaching ==
    [][/\ C15_FetchFailedNow =>
            LET show == ret'.arg.show IN
            /\ cache_info'.podcasts = cache_info.podcasts
            /\ ~cache_info'.podcasts[show].has
            /\ disk'.podcasts[show].has => disk'.podcasts[show] = disk.podcasts[show]
       /\ (/\ ret.op \in C14_Accessors /\ ret.arg.fetch
           /\ ~(ret.gets = 1 /\ ret.arg.api.kind = "json")
           /\ ret'.op \in C14_Accessors /\ ret'.arg.show = ret.arg.show)
          => ret'.arg.fetch]_vars

\* A fetch that failed for want of a token: the refresh was answered without
\* access_token.
C15_Witness ==
    /\ ret.op = "get_description" /\ ret.arg.fetch
    /\ ret.arg.token = NoneVal /\ ret.gets = 0 /\ ret.posts = 1
    /\ ret.exc = "AttributeError"
    /\ ~cache_info.podcasts[ret.arg.show].has

\* C16: an entry stays in the podcasts map until it is deleted.  After
\* on_podcast_delete with a show's URL, get_podcast of that show is None, the
\* other shows' entries and the credential are as before, and the next
\* accessor for that show fetches again; a delete of an id that has no entry
\* changes nothing and raises nothing.
C16_EntryLifecycle ==
    [][/\ \A s \in ShowIds :
             (cache_info.podcasts[s].has /\ ret'.op # "on_podcast_delete")
                => cache_info'.podcasts[s] = cache_info.podcasts[s]
       /\ (ret'.op = "on_podcast_delete" /\ ret'.arg.show \in ShowIds) =>
             /\ ret'.exc = "none"
             /\ ~get_podcast(cache_info', ret'.arg.show).info.has
             /\ \A s \in ShowIds \ {ret'.arg.show} :
                   cache_info'.podcasts[s] = cache_info.podcasts[s]
             /\ cache_info'.user = cache_info.user
             /\ ~cache_info.podcasts[ret'.arg.show].has
                   => (cache_info' = cache_info /\ disk' = disk)
       /\ (ret'.op = "on_podcast_delete" /\ ret'.arg.show \notin ShowIds) =>
             (ret'.exc = "none" /\ cache_info' = cache_info /\ disk' = disk)
       /\ \A s \in ShowIds :
             (/\ ret'.op = "on_podcast_delete" /\ ret'.arg.channel.isChannel
              /\ ret'.arg.channel.url.chars \in
                    {ShowUrl(s).chars, ShowUrl(s).chars \o <<"/">>})
             => (ret'.arg.show = s /\ ~cache_info'.podcasts[s].has)
       /\ (/\ ret.op = "on_podcast_delete" /\ ret.arg.show \in ShowIds
           /\ ret'.op \in C14_Accessors /\ ret'.arg.show = ret.arg.show)
          => ret'.arg.fetch]_vars

\* An entry is deleted (the write failing) while the other show's entry, fetched
\* in this run, stays.
C16_Witness ==
    /\ ret.op = "on_podcast_delete" /\ ret.arg.show = 1
    /\ ~cache_info.podcasts[1].has
    /\ cache_info.podcasts[2].has /\ cache_info.podcasts[2].d["name"] = MaxMeta
    /\ disk.kind = "object" /\ disk.podcasts[1].has

\* The guid and url of the records expected for the first i items: one for
\* each item whose id is not in existing_guids, in the order of the items.
C17_Expected(items, existing_guids) ==
    LET F[i \in 0..Len(items)] ==
            IF i = 0 THEN <<>>
            ELSE IF items[i].id \in existing_guids THEN F[i - 1]
            ELSE Append(F[i - 1], <<items[i].id, EpisodeUrl(items[i])>>)
    IN F[Len(items)]

\* C17: whatever episodes the API gives and whatever existing_guids holds,
\* get_new_episodes returns as all_seen_guids the ids of all fetched episodes
\* in upstream order, and as new_records one record, with guid the id and url
\* the link, for each fetched episode whose id is not in existing_guids, in
\* upstream order, each of them saved; the others give no record and no save.
C17_NewEpisodes ==
    (ret.op = "get_new_episodes" /\ ret.gets = 1 /\ ret.arg.inputs.api.kind = "json") =>
        LET items == ret.arg.inputs.api.body
            new == ret.val.new
        IN
        /\ ret.exc = "none"
        /\ ret.val.seen = [i \in 1..Len(items) |-> items[i].id]
        /\ [j \in 1..Len(new) |-> <<new[j].guid, new[j].url>>]
              = C17_Expected(items, ret.arg.inputs.existing_guids)
        /\ \A j \in 1..Len(new) : new[j].link = new[j].url
        /\ ret.arg.saves = Len(new)

\* The step is a call that reaches save_cache_file: set_user_info and
\* set_podcast_info always do, delete_podcast_info when the id has an entry.
C18_Saves ==
    \/ ret'.op \in {"set_user_info", "set_podcast_info"}
    \/ ret'.op = "delete_podcast_info" /\ cache_info.podcasts[ret'.arg.show].has

\* C18: set_user_info, set_podcast_info and delete_podcast_info return
\* normally and keep their update in memory when the write of the file fails;
\* after a call whose write succeeds the file holds the whole document in
\* memory, podcasts and user, with the updates of earlier calls whose writes
\* failed.
C18_BestEffortWholeDocument ==
    [][ret'.op \in {"set_user_info", "set_podcast_info", "delete_podcast_info"} =>
          /\ ret'.exc = "none"
          /\ ret'.op = "set_user_info" =>
                cache_info'.user.access_token = ret'.arg.info.access_token
          /\ ret'.op = "set_podcast_info" =>
                /\ cache_info'.podcasts[ret'.arg.show].has
                /\ cache_info'.podcasts[ret'.arg.show].d["name"] = ret'.arg.info.d["name"]
          /\ ret'.op = "delete_podcast_info" => ~cache_info'.podcasts[ret'.arg.show].has
          /\ (C18_Saves /\ ret'.arg.w = "ok") => disk' = cache_info'
          /\ (C18_Saves /\ ret'.arg.w = "open_failed") => disk' = disk
          /\ (C18_Saves /\ ret'.arg.w = "truncated") => disk'.kind = "corrupt"]_vars

\* A write that succeeds: the file holds the podcast entry just stored
\* together with a credential stored and a deletion made by earlier calls.
C18_Witness ==
    /\ ret.op = "set_podcast_info" /\ ret.arg.w = "ok" /\ ret.arg.show = 2
    /\ disk = cache_info
    /\ cache_info.user.access_token = MaxTok /\ cache_info.user.refresh_token = MaxTok
    /\ ~cache_info.podcasts[1].has
    /\ cache_info.podcasts[2].d["description"] = Missing

C20_SessionIsPair == (verifier = NoneVal) <=> (oauth_state = NoneVal)

====
